---------------------------- MODULE Spec2Model ----------------------------
(***************************************************************************)
(* fridgely-server: the FridgeState reference store and the ModeFileDB     *)
(* file store with its chain of rotated backups.                           *)
(*                                                                         *)
(* File contents are the texts FridgeState.serialize produces.  Every      *)
(* awaited file-system call of create / write / read / shiftBackupFiles is *)
(* one atomic step of the calling client, so that calls can be stopped     *)
(* between steps and the steps of two clients can interleave.              *)
(***************************************************************************)
EXTENDS Integers, Sequences, FiniteSets, TLC

(***************************************************************************)
(* Bounds and program constants                                            *)
(***************************************************************************)

\* largest localBackupCount an instance is configured with
MaxDepth == 3

\* longest sequence of references a store is constructed from, a document
\* holds or addRef leaves
MaxRefs == 2

\* longest diagnostic log to which a session still pushes
MaxMessages == 2

CURRENT_VERSION == 0

\* MODEL_DB_DEFAULTS.localBackupCount
DefaultBackupCount == 3

(***************************************************************************)
(* Optional values: <<>> is null / undefined, <<v>> is the value v         *)
(***************************************************************************)

None == <<>>

Some(v) == <<v>>

(***************************************************************************)
(* FridgeState                                                             *)
(***************************************************************************)

\* {}: an object without keys of its own
EmptyObject == [k \in {} |-> <<>>]

\* the value undefined where it is compared with a string
Undefined == "(undefined)"

\* `${value}` in a template string
Render(value) == IF value = Undefined THEN "undefined" ELSE value

Digits == <<"0", "1", "2", "3", "4", "5", "6", "7", "8", "9">>

\* `${n}` for the numbers in use
IndexText(i) == Digits[i + 1]

\* the keys every object literal inherits from Object.prototype: `key in {}`
\* is true of each
ObjectPrototypeKeys ==
  { "constructor", "toString", "toLocaleString", "valueOf", "hasOwnProperty",
    "isPrototypeOf", "propertyIsEnumerable", "__proto__" }

\* what {}[key] is for an inherited key: a member of Object.prototype, which
\* has neither id nor type
Inherited(key) == [inherited |-> key]

\* the number an integer-like key spells, -1 for any other key: an object
\* lists its integer-like keys in ascending order before its other keys
ArrayIndex(key) ==
  IF \E k \in 1..Len(Digits) : Digits[k] = key
  THEN (CHOOSE k \in 1..Len(Digits) : Digits[k] = key) - 1
  ELSE -1

\* an array value of a document, and a value that is not an array
Array(items) == [array |-> TRUE, items |-> items]

NotArray == [array |-> FALSE, items |-> <<>>]

\* a Referencable: id and type, the payload is opaque to the store
Ref(id, type) == [id |-> id, type |-> type]

\* one entry of the messages array
Message(level, message, refIds) ==
  [level |-> level, message |-> message, refIds |-> refIds]

\* refsById has id as a key of its own; refsById is kept as the sequence of
\* its values in property order
OwnId(refsById, id) == \E k \in 1..Len(refsById) : refsById[k].id = id

\* `id in this.refsById`
HasId(refsById, id) == OwnId(refsById, id) \/ id \in ObjectPrototypeKeys

\* this.refsById[id], for an id that is `in` it
RefOfId(refsById, id) ==
  IF OwnId(refsById, id)
  THEN refsById[CHOOSE j \in 1..Len(refsById) : refsById[j].id = id]
  ELSE Inherited(id)

\* the type of this.refsById[id]
TypeOfId(refsById, id) ==
  IF OwnId(refsById, id) THEN RefOfId(refsById, id).type ELSE Undefined

\* this.refsById[id] = ref for an id that is not a key yet, in property order
setRefById(refsById, ref) ==
  IF ArrayIndex(ref.id) < 0 THEN Append(refsById, ref)
  ELSE LET smaller == {k \in 1..Len(refsById) :
                         /\ ArrayIndex(refsById[k].id) >= 0
                         /\ ArrayIndex(refsById[k].id) < ArrayIndex(ref.id)}
           n == Cardinality(smaller)
       IN  SubSeq(refsById, 1, n) \o <<ref>> \o SubSeq(refsById, n + 1, Len(refsById))

\* `type in this.refsByType`; refsByType is a function from the types it has
\* as keys of its own to the bucket of each
HasType(refsByType, type) ==
  type \in DOMAIN refsByType \/ type \in ObjectPrototypeKeys

\* pushMessage(level, message, refIds)
pushMessage(s, level, message, refIds) ==
  [s EXCEPT !.messages = Append(@, Message(level, message, refIds))]

pushWarning(s, message) == pushMessage(s, "WARNING", message, None)

pushError(s, message) == pushMessage(s, "ERROR", message, None)

\* addToDictionaries(ref): push on a bucket that is an inherited member
\* throws, after refsById has been set
addToDictionaries(s, ref) ==
  IF HasId(s.refsById, ref.id)
  THEN LET existingType == TypeOfId(s.refsById, ref.id)
           isReallyBad == IF existingType # ref.type THEN "ERROR" ELSE "WARNING"
       IN  pushMessage(s, isReallyBad,
                       <<"Duplicate ref ids found. types", ref.type, Render(existingType)>>,
                       Some(<<ref.id>>))
  ELSE LET byId == setRefById(s.refsById, ref)
       IN  IF ~HasType(s.refsByType, ref.type)
           THEN [s EXCEPT !.refsById = byId,
                          !.refsByType = [t \in DOMAIN s.refsByType \cup {ref.type} |->
                                            IF t = ref.type THEN <<ref>>
                                            ELSE s.refsByType[t]]]
           ELSE IF ref.type \in DOMAIN s.refsByType
           THEN [s EXCEPT !.refsById = byId,
                          !.refsByType[ref.type] = Append(@, ref)]
           ELSE [s EXCEPT !.refsById = byId, !.thrown = Some("TypeError")]

RECURSIVE buildFrom(_, _, _)
\* the loop of buildDictionaries over this.references, from index k on
buildFrom(s, refs, k) ==
  IF k > Len(refs) \/ s.thrown # None THEN s
  ELSE buildFrom(addToDictionaries(s, refs[k]), refs, k + 1)

\* buildDictionaries()
buildDictionaries(s) ==
  buildFrom([s EXCEPT !.refsById = <<>>, !.refsByType = EmptyObject], s.references, 1)

\* new FridgeState(version, references, messages); thrown is the error the
\* constructor or the last method call threw, None when it returned
NewFridgeState(version, references, messages) ==
  buildDictionaries([version |-> version, references |-> references,
                     messages |-> messages,
                     refsById |-> <<>>, refsByType |-> EmptyObject,
                     thrown |-> None])

\* new FridgeState(version, references, messages) with references that are
\* not iterable: `for (let ref of this.references)` throws
NewFridgeStateOf(version, references, messages) ==
  IF references.array THEN NewFridgeState(version, references.items, messages)
  ELSE [NewFridgeState(version, <<>>, messages) EXCEPT !.thrown = Some("TypeError")]

\* getRefs(type): the bucket, no references, or an inherited member
getRefs(s, type) ==
  IF type \in DOMAIN s.refsByType THEN Array(s.refsByType[type])
  ELSE IF HasType(s.refsByType, type) THEN Inherited(type)
  ELSE Array(<<>>)

\* getRef(id)
getRef(s, id) ==
  IF HasId(s.refsById, id) THEN Some(RefOfId(s.refsById, id)) ELSE None

\* addRef(ref)
addRef(s, ref) ==
  IF HasId(s.refsById, ref.id)
  THEN [s EXCEPT !.thrown = Some("Can't add ref to fridge state - ID matches existing ref.")]
  ELSE addToDictionaries([s EXCEPT !.references = Append(@, ref)], ref)

\* serialize(): the JSON text, kept as the document it spells
serialize(s) ==
  [kind |-> "json", version |-> CURRENT_VERSION,
   references |-> Array(s.refsById),
   messages |-> Array(s.messages)]

\* a field of a parsed document that is not there, or not an array, reads as
\* something that is not an array
ArrayField(text, name) == IF name \in DOMAIN text THEN text[name] ELSE NotArray

\* deserialize constructing an empty store where the messages are missing
deserializeDropsReferences(text) ==
  IF text.kind = "garbage"
  THEN pushError(pushError(NewFridgeState(CURRENT_VERSION, <<>>, <<>>),
                           <<"Error parsing FridgeState string">>),
                 <<"raw", text>>)
  ELSE IF text.kind = "null"
  THEN [NewFridgeState(CURRENT_VERSION, <<>>, <<>>) EXCEPT !.thrown = Some("TypeError")]
  ELSE IF "version" \notin DOMAIN text \/ text.version # CURRENT_VERSION
  THEN pushError(pushError(NewFridgeState(CURRENT_VERSION, <<>>, <<>>),
                           <<"Unuspported version number in serialized FridgeState",
                             IndexText(CURRENT_VERSION),
                             IF "version" \in DOMAIN text
                             THEN IndexText(text.version) ELSE Render(Undefined)>>),
                 <<"raw", text>>)
  ELSE IF ~ArrayField(text, "messages").array
  THEN pushWarning(pushWarning(NewFridgeState(CURRENT_VERSION, <<>>, <<>>),
                               <<"deserialize passed string-object that is missing the messages array">>),
                   <<"raw", text>>)
  ELSE NewFridgeStateOf(CURRENT_VERSION, ArrayField(text, "references"),
                        text.messages.items)

\* deserialize without its check of the version
deserializeAnyVersion(text) ==
  IF text.kind = "garbage"
  THEN pushError(pushError(NewFridgeState(CURRENT_VERSION, <<>>, <<>>),
                           <<"Error parsing FridgeState string">>),
                 <<"raw", text>>)
  ELSE IF text.kind = "null"
  THEN [NewFridgeState(CURRENT_VERSION, <<>>, <<>>) EXCEPT !.thrown = Some("TypeError")]
  ELSE IF ~ArrayField(text, "messages").array
  THEN LET state == NewFridgeStateOf(CURRENT_VERSION, ArrayField(text, "references"), <<>>)
       IN  IF state.thrown # None THEN state
           ELSE pushWarning(pushWarning(state,
                                        <<"deserialize passed string-object that is missing the messages array">>),
                            <<"raw", text>>)
  ELSE NewFridgeStateOf(CURRENT_VERSION, ArrayField(text, "references"),
                        text.messages.items)

\* FridgeState.deserialize(serialized). kind is "garbage" for text that does
\* not parse, "null" for text that parses to null, "json" for text that
\* parses to anything else: the fields of the record are the fields the
\* parsed value has
deserialize(text) ==
  IF text.kind = "garbage"
  THEN pushError(pushError(NewFridgeState(CURRENT_VERSION, <<>>, <<>>),
                           <<"Error parsing FridgeState string">>),
                 <<"raw", text>>)
  ELSE IF text.kind = "null"
  THEN [NewFridgeState(CURRENT_VERSION, <<>>, <<>>) EXCEPT !.thrown = Some("TypeError")]
  ELSE IF "version" \notin DOMAIN text \/ text.version # CURRENT_VERSION
  THEN pushError(pushError(NewFridgeState(CURRENT_VERSION, <<>>, <<>>),
                           <<"Unuspported version number in serialized FridgeState",
                             IndexText(CURRENT_VERSION),
                             IF "version" \in DOMAIN text
                             THEN IndexText(text.version) ELSE Render(Undefined)>>),
                 <<"raw", text>>)
  ELSE IF ~ArrayField(text, "messages").array
  THEN LET state == NewFridgeStateOf(CURRENT_VERSION, ArrayField(text, "references"), <<>>)
       IN  IF state.thrown # None THEN state
           ELSE pushWarning(pushWarning(state,
                                        <<"deserialize passed string-object that is missing the messages array">>),
                            <<"raw", text>>)
  ELSE NewFridgeStateOf(CURRENT_VERSION, ArrayField(text, "references"),
                        text.messages.items)

(***************************************************************************)
(* ModeFileDB: configuration, paths and the file system                    *)
(***************************************************************************)

\* the clients that call create / write / read on the same dbFileName
Procs == {1, 2}

\* dbFileName values an instance is configured with, as character sequences:
\* with two periods, and without any
FileNames == { <<"a", ".", "b", ".", "j">>, <<"d", "b">> }

\* the references a client's stores are constructed from; the third repeats
\* the id of the first with another type, the fifth with the same type
RefPool ==
  << Ref("a", "t"), Ref("b", "u"), Ref("a", "u"), Ref("c", "t"), Ref("a", "t") >>

\* the stores a client passes to write: one with a single reference, one
\* constructed from references among which an id is repeated
StoreInputs ==
  << NewFridgeState(CURRENT_VERSION, SubSeq(RefPool, 1, 1), <<>>),
     NewFridgeState(CURRENT_VERSION, SubSeq(RefPool, 1, 3), <<>>) >>

WriteStores == { StoreInputs[k] : k \in DOMAIN StoreInputs }

VARIABLES
  dbFileName,        \* options.dbFileName
  localBackupCount,  \* options.localBackupCount
  disk,              \* the files that exist: path -> content
  dirs,              \* the directories that exist
  pc,                \* per client: the awaited call it is at, or "idle"
  op,                \* per client: the method of its current or last call
  model,             \* per client: the `model` of write and of read
  backup,            \* per client: the `backup` of readModelFiles
  content,           \* per client: the local `content` of create / write
  idx,               \* per client: the loop variable i of shiftBackupFiles
  result,            \* per client: the outcome of its last finished call
  before,            \* per client: the disk when its current or last call began
  arg,               \* per client: the store passed to its current or last write
  rerun,             \* per client: the step at which its write before the current
                     \* or last call stopped, "" when that call did not stop
  overlapped,        \* per client: another client changed a file during its
                     \* current or last call
  store,             \* the FridgeState a session holds in memory
  call,              \* the last call made on it or for it: its name and inputs,
                     \* for addRef and a reload also the store as it was
  raised,            \* the error that call threw, None when it returned
  committed          \* where on: the contents of the creates and writes that
                     \* returned, the last first, as far back as MaxDepth

vars == <<dbFileName, localBackupCount, disk, dirs, pc, op, model, backup, content, idx,
          result, before, arg, rerun, overlapped, store, call, raised, committed>>

\* the store of a session and what is recorded of the last call on it
session == <<store, call, raised>>

\* what is recorded of a call when it begins
history == <<before, arg, rerun>>

config == <<dbFileName, localBackupCount>>

\* String.prototype.lastIndexOf("."), 0-based, -1 when there is none
lastIndexOf(name) ==
  LET at == {k \in 1..Len(name) : name[k] = "."}
  IN  IF at = {} THEN -1 ELSE (CHOOSE k \in at : \A j \in at : j <= k) - 1

\* String.prototype.substring(start, end), 0-based: an index outside the
\* string is taken to the nearer end of it
substring(s, start, end) ==
  LET clamp(k) == IF k < 0 THEN 0 ELSE IF k > Len(s) THEN Len(s) ELSE k
      a == clamp(start)
      b == clamp(end)
  IN  IF a <= b THEN SubSeq(s, a + 1, b) ELSE SubSeq(s, b + 1, a)

\* getModelFileNameParts() without its check of periodIndex
getModelFileNamePartsUnchecked ==
  LET periodIndex == lastIndexOf(dbFileName)
  IN  [bad |-> FALSE,
       base |-> substring(dbFileName, 0, periodIndex),
       ext |-> substring(dbFileName, periodIndex, Len(dbFileName))]

\* getModelFileNameParts(): bad when it throws
getModelFileNameParts ==
  LET periodIndex == lastIndexOf(dbFileName)
  IN  [bad |-> periodIndex = -1,
       base |-> substring(dbFileName, 0, periodIndex),
       ext |-> substring(dbFileName, periodIndex, Len(dbFileName))]

\* getModelBackupFilePath(backupIndex) throws
BadBackupFileName == getModelFileNameParts.bad

\* getModelFilePath()
getModelFilePath == [dir |-> "base", name |-> dbFileName]

\* getModelBackupFilePath() without backupIndex
baseBackupFilePath == [dir |-> "backups", name |-> dbFileName]

\* getModelBackupFilePath(backupIndex)
getModelBackupFilePath(backupIndex) ==
  LET parts == getModelFileNameParts
  IN  [dir |-> "backups",
       name |-> parts.base \o <<"_", IndexText(backupIndex)>> \o parts.ext]

\* fileExists(filePath)
fileExists(fs, filePath) == filePath \in DOMAIN fs

\* fs.writeFile(filePath, text)
writeFile(fs, filePath, text) ==
  [f \in DOMAIN fs \cup {filePath} |-> IF f = filePath THEN text ELSE fs[f]]

\* fs.rename(from, to)
rename(fs, from, to) ==
  [f \in (DOMAIN fs \ {from}) \cup {to} |-> IF f = to THEN fs[from] ELSE fs[f]]

\* a copy that takes the file at from away
copyFileMoving(fs, from, to) == rename(fs, from, to)

\* fs.copyFile(from, to)
copyFile(fs, from, to) ==
  [f \in DOMAIN fs \cup {to} |-> IF f = to THEN fs[from] ELSE fs[f]]

\* client p takes a step of a call: a file it changes is changed during the
\* calls the other clients are in
Observe(p) ==
  overlapped' = [q \in Procs |->
                   IF q = p THEN overlapped[q]
                   ELSE overlapped[q] \/ (pc[q] # "idle" /\ disk' # disk)]

\* the outcome of a call
Outcome(status, error, ret) == [status |-> status, error |-> error, ret |-> ret]

NoOutcome == Outcome("none", "", None)

\* the contents committed, once a call of client p ends with outcome
Commit(p, outcome) ==
  IF committed.on /\ outcome.status = "ok" /\ op[p] \in {"create", "write"}
  THEN [committed EXCEPT !.log = SubSeq(<<content[p][1]>> \o @, 1,
                                        IF Len(@) < MaxDepth THEN Len(@) + 1 ELSE MaxDepth)]
  ELSE committed

\* a call of client p returns or throws: its locals are gone
Finish(p, outcome) ==
  /\ pc' = [pc EXCEPT ![p] = "idle"]
  /\ result' = [result EXCEPT ![p] = outcome]
  /\ model' = [model EXCEPT ![p] = None]
  /\ backup' = [backup EXCEPT ![p] = None]
  /\ content' = [content EXCEPT ![p] = None]
  /\ idx' = [idx EXCEPT ![p] = 0]
  /\ committed' = Commit(p, outcome)
  /\ Observe(p)
  /\ UNCHANGED <<config, op, history, session>>

Return(p, ret) == Finish(p, Outcome("ok", "", ret))

Throw(p, error) == Finish(p, Outcome("error", error, None))

\* client p goes on to its next awaited call
Goto(p, label) ==
  /\ pc' = [pc EXCEPT ![p] = label]
  /\ Observe(p)
  /\ UNCHANGED <<config, op, history, result, session, committed>>

\* client p begins a call of method m with the store given (None: no store)
Begin(p, m, given, label) ==
  /\ pc[p] = "idle"
  /\ pc' = [pc EXCEPT ![p] = label]
  /\ op' = [op EXCEPT ![p] = m]
  /\ model' = [model EXCEPT ![p] = given]
  /\ result' = [result EXCEPT ![p] = NoOutcome]
  /\ before' = [before EXCEPT ![p] = disk]
  /\ arg' = [arg EXCEPT ![p] = given]
  /\ rerun' = [rerun EXCEPT ![p] =
                 IF op[p] = "write" /\ result[p].status = "crashed"
                 THEN result[p].error ELSE ""]
  /\ overlapped' = [overlapped EXCEPT ![p] = FALSE]
  /\ UNCHANGED <<config, disk, dirs, backup, content, idx, session, committed>>

\* the state after construction of the ModeFileDB, nothing on disk yet, and
\* of a session that has made no call
InitState ==
  /\ dbFileName \in FileNames
  /\ localBackupCount \in 0..MaxDepth
  /\ disk = EmptyObject
  /\ dirs = {}
  /\ pc = [p \in Procs |-> "idle"]
  /\ op = [p \in Procs |-> "none"]
  /\ model = [p \in Procs |-> None]
  /\ backup = [p \in Procs |-> None]
  /\ content = [p \in Procs |-> None]
  /\ idx = [p \in Procs |-> 0]
  /\ result = [p \in Procs |-> NoOutcome]
  /\ before = [p \in Procs |-> EmptyObject]
  /\ arg = [p \in Procs |-> None]
  /\ rerun = [p \in Procs |-> ""]
  /\ overlapped = [p \in Procs |-> FALSE]
  /\ store = NewFridgeState(CURRENT_VERSION, <<>>, <<>>)
  /\ call = [name |-> "none"]
  /\ raised = None

Init ==
  /\ InitState
  /\ committed = [on |-> FALSE, log |-> <<>>]

(***************************************************************************)
(* shiftBackupFiles, as called by create and by write                      *)
(***************************************************************************)

\* shiftBackupFiles is over: create and write go on to their writeFile of
\* dbPath, a call of shiftBackupFiles itself returns
AfterShift(p) ==
  IF op[p] = "shift"
  THEN Return(p, None)
  ELSE /\ Goto(p, "primary")
       /\ idx' = [idx EXCEPT ![p] = 0]
       /\ UNCHANGED <<model, backup, content>>

\* the head of the for loop with i, and what follows the loop: the paths of
\* the next awaited call are derived before it is made
ShiftLoop(p, i) ==
  IF i > 0
  THEN IF BadBackupFileName
       THEN Throw(p, "BAD BACKUP FILE NAME")
       ELSE /\ Goto(p, "shift_exists")
            /\ idx' = [idx EXCEPT ![p] = i]
            /\ UNCHANGED <<model, backup, content>>
  ELSE IF localBackupCount > 0
  THEN IF BadBackupFileName
       THEN Throw(p, "BAD BACKUP FILE NAME")
       ELSE /\ Goto(p, "shift_copy")
            /\ idx' = [idx EXCEPT ![p] = 0]
            /\ UNCHANGED <<model, backup, content>>
  ELSE AfterShift(p)

\* a call of shiftBackupFiles by itself
ShiftCall(p) == Begin(p, "shift", None, "shift_base")

\* the loop begun one generation short of the oldest
ShiftBaseExistsShort(p) ==
  /\ pc[p] = "shift_base"
  /\ UNCHANGED <<disk, dirs>>
  /\ IF ~fileExists(disk, baseBackupFilePath)
     THEN Throw(p, "Can't shift backups because base backup doesn't exist!")
     ELSE ShiftLoop(p, localBackupCount - 2)

\* await fileExists(baseBackupFilePath)
ShiftBaseExists(p) ==
  /\ pc[p] = "shift_base"
  /\ UNCHANGED <<disk, dirs>>
  /\ IF ~fileExists(disk, baseBackupFilePath)
     THEN Throw(p, "Can't shift backups because base backup doesn't exist!")
     ELSE ShiftLoop(p, localBackupCount - 1)

\* the rename made without asking whether newerFilePath exists
ShiftExistsUnchecked(p) ==
  /\ pc[p] = "shift_exists"
  /\ UNCHANGED <<disk, dirs>>
  /\ Goto(p, "shift_rename")
  /\ UNCHANGED <<model, backup, content, idx>>

\* await fileExists(newerFilePath)
ShiftExists(p) ==
  /\ pc[p] = "shift_exists"
  /\ UNCHANGED <<disk, dirs>>
  /\ IF fileExists(disk, getModelBackupFilePath(idx[p] - 1))
     THEN /\ Goto(p, "shift_rename")
          /\ UNCHANGED <<model, backup, content, idx>>
     ELSE ShiftLoop(p, idx[p] - 1)

\* the loop going on without its rename
ShiftRenameSkipped(p) ==
  /\ pc[p] = "shift_rename"
  /\ UNCHANGED <<disk, dirs>>
  /\ ShiftLoop(p, idx[p] - 1)

\* await rename(newerFilePath, olderFilePath)
ShiftRename(p) ==
  /\ pc[p] = "shift_rename"
  /\ UNCHANGED dirs
  /\ IF ~fileExists(disk, getModelBackupFilePath(idx[p] - 1))
     THEN /\ UNCHANGED disk
          /\ Throw(p, "ENOENT rename")
     ELSE /\ disk' = rename(disk, getModelBackupFilePath(idx[p] - 1),
                            getModelBackupFilePath(idx[p]))
          /\ ShiftLoop(p, idx[p] - 1)

\* copyFile with its arguments exchanged
ShiftCopyFileSwapped(fs) ==
  IF fileExists(fs, getModelBackupFilePath(0))
  THEN copyFile(fs, getModelBackupFilePath(0), baseBackupFilePath)
  ELSE fs

\* copyFile(baseBackupFilePath, this.getModelBackupFilePath(0))
ShiftCopyFile(fs) == copyFile(fs, baseBackupFilePath, getModelBackupFilePath(0))

\* await copyFile(baseBackupFilePath, this.getModelBackupFilePath(0))
ShiftCopy(p) ==
  /\ pc[p] = "shift_copy"
  /\ UNCHANGED dirs
  /\ IF ~fileExists(disk, baseBackupFilePath)
     THEN /\ UNCHANGED disk
          /\ Throw(p, "ENOENT copyFile")
     ELSE /\ disk' = ShiftCopyFile(disk)
          /\ AfterShift(p)

(***************************************************************************)
(* create                                                                  *)
(***************************************************************************)

CreateCall(p) == Begin(p, "create", None, "create_exists")

\* create without its check of dbPath
CreateExistsUnchecked(p) ==
  /\ pc[p] = "create_exists"
  /\ UNCHANGED <<disk, dirs>>
  /\ Goto(p, "create_mkdir")
  /\ UNCHANGED <<model, backup, content, idx>>

\* await fileExists(dbPath)
CreateExists(p) ==
  /\ pc[p] = "create_exists"
  /\ UNCHANGED <<disk, dirs>>
  /\ IF fileExists(disk, getModelFilePath)
     THEN Throw(p, "CANT CREATE DB! ALREADY EXISTS")
     ELSE /\ Goto(p, "create_mkdir")
          /\ UNCHANGED <<model, backup, content, idx>>

\* await mkdir(path.dirname(backupPath), {recursive:true}), then the new model
\* and its content
CreateMkdir(p) ==
  /\ pc[p] = "create_mkdir"
  /\ dirs' = dirs \cup {"base", "backups"}
  /\ model' = [model EXCEPT ![p] = Some(NewFridgeState(CURRENT_VERSION, <<>>, <<>>))]
  /\ content' = [content EXCEPT ![p] = Some(serialize(model'[p][1]))]
  /\ UNCHANGED <<disk, backup, idx>>
  /\ Goto(p, "backup")

(***************************************************************************)
(* write                                                                   *)
(***************************************************************************)

WriteCall(p, s) == Begin(p, "write", Some(s), "write_exists")

\* write without its check of baseBackupFilePath
WriteExistsUnchecked(p) ==
  /\ pc[p] = "write_exists"
  /\ UNCHANGED <<disk, dirs>>
  /\ content' = [content EXCEPT ![p] = Some(serialize(model[p][1]))]
  /\ Goto(p, "backup")
  /\ UNCHANGED <<model, backup, idx>>

\* write refusing a backup that is not the content of the model file
WriteExistsParityChecked(p) ==
  /\ pc[p] = "write_exists"
  /\ UNCHANGED <<disk, dirs>>
  /\ IF ~fileExists(disk, baseBackupFilePath)
     THEN Throw(p, "Can't perform backup because previous base backup doesn't exist!")
     ELSE IF fileExists(disk, getModelFilePath)
             /\ disk[getModelFilePath] # disk[baseBackupFilePath]
     THEN Throw(p, "backup differs from model")
     ELSE /\ content' = [content EXCEPT ![p] = Some(serialize(model[p][1]))]
          /\ Goto(p, "backup")
          /\ UNCHANGED <<model, backup, idx>>

\* await fileExists(baseBackupFilePath), then model.serialize()
WriteExists(p) ==
  /\ pc[p] = "write_exists"
  /\ UNCHANGED <<disk, dirs>>
  /\ IF ~fileExists(disk, baseBackupFilePath)
     THEN Throw(p, "Can't perform backup because previous base backup doesn't exist!")
     ELSE /\ content' = [content EXCEPT ![p] = Some(serialize(model[p][1]))]
          /\ Goto(p, "backup")
          /\ UNCHANGED <<model, backup, idx>>

(***************************************************************************)
(* the steps create and write share                                        *)
(***************************************************************************)

\* the content written to the backup and to dbPath in one go
WriteBackupAndPrimary(p) ==
  /\ pc[p] = "backup"
  /\ UNCHANGED dirs
  /\ IF "backups" \notin dirs
     THEN /\ UNCHANGED disk
          /\ Throw(p, "ENOENT writeFile")
     ELSE /\ disk' = writeFile(writeFile(disk, baseBackupFilePath, content[p][1]),
                               getModelFilePath, content[p][1])
          /\ Goto(p, "shift_base")
          /\ UNCHANGED <<model, backup, content, idx>>

\* await writeFile(backupPath, content, "utf-8")
WriteBackup(p) ==
  /\ pc[p] = "backup"
  /\ UNCHANGED dirs
  /\ IF "backups" \notin dirs
     THEN /\ UNCHANGED disk
          /\ Throw(p, "ENOENT writeFile")
     ELSE /\ disk' = writeFile(disk, baseBackupFilePath, content[p][1])
          /\ Goto(p, "shift_base")
          /\ UNCHANGED <<model, backup, content, idx>>

\* what create returns (newModel) and what write returns (nothing)
Returned(p) == IF op[p] = "create" THEN model[p] ELSE None

\* the last writeFile made to the backup path once more
WritePrimaryWrongPath(p) ==
  /\ pc[p] = "primary"
  /\ UNCHANGED dirs
  /\ disk' = writeFile(disk, baseBackupFilePath, content[p][1])
  /\ Return(p, Returned(p))

\* await writeFile(dbPath, content, "utf-8"), and the return
WritePrimary(p) ==
  /\ pc[p] = "primary"
  /\ UNCHANGED dirs
  /\ IF "base" \notin dirs
     THEN /\ UNCHANGED disk
          /\ Throw(p, "ENOENT writeFile")
     ELSE /\ disk' = writeFile(disk, getModelFilePath, content[p][1])
          /\ Return(p, Returned(p))

(***************************************************************************)
(* read                                                                    *)
(***************************************************************************)

ReadCall(p) == Begin(p, "read", None, "read_backup_exists")

\* readFile(getModelBackupFilePath()): await fileExists(filePath)
ReadBackupExists(p) ==
  /\ pc[p] = "read_backup_exists"
  /\ UNCHANGED <<disk, dirs, model, backup, content, idx>>
  /\ IF fileExists(disk, baseBackupFilePath)
     THEN Goto(p, "read_backup")
     ELSE Goto(p, "read_model_exists")

\* readFile(filePath, "utf-8") of the backup, deserialized
ReadBackup(p) ==
  /\ pc[p] = "read_backup"
  /\ UNCHANGED <<disk, dirs>>
  /\ IF ~fileExists(disk, baseBackupFilePath)
     THEN Throw(p, "ENOENT readFile")
     ELSE IF deserialize(disk[baseBackupFilePath]).thrown # None
     THEN Throw(p, deserialize(disk[baseBackupFilePath]).thrown[1])
     ELSE /\ backup' = [backup EXCEPT ![p] = Some(deserialize(disk[baseBackupFilePath]))]
          /\ Goto(p, "read_model_exists")
          /\ UNCHANGED <<model, content, idx>>

\* the backup taken when there is no model file
ReadResultFallback(m, b) == IF m = None THEN b ELSE m

\* const {model} = await this.readModelFiles()
ReadResult(m, b) == m

\* read() after readModelFiles: throws when model is null
ReadReturn(p, m, b) ==
  IF ReadResult(m, b) = None
  THEN Throw(p, "MODEL NOT FOUND")
  ELSE Return(p, ReadResult(m, b))

\* readFile(getModelFilePath()): await fileExists(filePath)
ReadModelExists(p) ==
  /\ pc[p] = "read_model_exists"
  /\ UNCHANGED <<disk, dirs>>
  /\ IF fileExists(disk, getModelFilePath)
     THEN /\ Goto(p, "read_model")
          /\ UNCHANGED <<model, backup, content, idx>>
     ELSE ReadReturn(p, None, backup[p])

\* readFile(filePath, "utf-8") of the model file, deserialized
ReadModel(p) ==
  /\ pc[p] = "read_model"
  /\ UNCHANGED <<disk, dirs>>
  /\ IF ~fileExists(disk, getModelFilePath)
     THEN Throw(p, "ENOENT readFile")
     ELSE IF deserialize(disk[getModelFilePath]).thrown # None
     THEN Throw(p, deserialize(disk[getModelFilePath]).thrown[1])
     ELSE ReadReturn(p, Some(deserialize(disk[getModelFilePath])), backup[p])

(***************************************************************************)
(* a create or a write stops between two of its steps (the process dies)   *)
(***************************************************************************)

Crash(p) ==
  /\ pc[p] # "idle"
  /\ op[p] \in {"create", "write"}
  /\ UNCHANGED <<disk, dirs>>
  /\ Finish(p, Outcome("crashed", pc[p], None))

(***************************************************************************)
(* Specifications                                                          *)
(***************************************************************************)

\* a step of a call of client p
Step(p) ==
  \/ CreateExists(p)
  \/ CreateMkdir(p)
  \/ WriteExists(p)
  \/ WriteBackup(p)
  \/ ShiftBaseExists(p)
  \/ ShiftExists(p)
  \/ ShiftRename(p)
  \/ ShiftCopy(p)
  \/ WritePrimary(p)

ReadStep(p) ==
  \/ ReadBackupExists(p)
  \/ ReadBackup(p)
  \/ ReadModelExists(p)
  \/ ReadModel(p)

\* the single writer: one client, whose calls may stop at any step
Next ==
  \/ CreateCall(1)
  \/ \E s \in WriteStores : WriteCall(1, s)
  \/ ReadCall(1)
  \/ Step(1)
  \/ ReadStep(1)
  \/ Crash(1)

Spec == Init /\ [][Next]_vars

\* the store client p writes: the two clients write different contents
StoreOf(p) == StoreInputs[p]

\* two clients on the same dbFileName, their steps interleaved
NextConc ==
  \/ CreateCall(1)
  \/ \E p \in Procs :
       \/ WriteCall(p, StoreOf(p))
       \/ Step(p)

\* the options of main.ts: a dbFileName with a period and the default
\* localBackupCount
InitConc ==
  /\ Init
  /\ ~BadBackupFileName
  /\ localBackupCount = DefaultBackupCount

SpecConc == InitConc /\ [][NextConc]_vars

\* the single writer, and shiftBackupFiles also called by itself
NextShift ==
  \/ CreateCall(1)
  \/ \E s \in WriteStores : WriteCall(1, s)
  \/ ShiftCall(1)
  \/ Step(1)
  \/ Crash(1)

SpecShift == Init /\ [][NextShift]_vars

\* the single writer whose calls all run to their end, the contents it
\* commits on record
NextCommit ==
  \/ CreateCall(1)
  \/ \E s \in WriteStores : WriteCall(1, s)
  \/ Step(1)

InitCommit ==
  /\ InitState
  /\ committed = [on |-> TRUE, log |-> <<>>]

SpecCommit == InitCommit /\ [][NextCommit]_vars

(***************************************************************************)
(* A session on a FridgeState: construction, addRef, the push methods,     *)
(* deserialize, and serialize followed by deserialize                      *)
(***************************************************************************)

\* what the file store keeps: a session on a store in memory touches none of it
database == <<dbFileName, localBackupCount, disk, dirs, pc, op, model, backup, content,
              idx, result, before, arg, rerun, overlapped, committed>>

\* the references of a session: an id that repeats with another type and with
\* the same, an integer-like id, and an id and a type that Object.prototype
\* has as keys
RefUniverse ==
  { Ref("a", "t"), Ref("a", "u"), Ref("1", "t"),
    Ref("toString", "t"), Ref("b", "constructor") }

\* the sequences over S of length n at most
SeqsUpTo(S, n) == UNION { [1..k -> S] : k \in 0..n }

RefSeqs == SeqsUpTo(RefUniverse, MaxRefs)

\* the diagnostic a session pushes with the ids it is about; pushWarning and
\* pushError supply both levels without ids
MessageInputs ==
  { Message("WARNING", "note", Some(<<"a">>)) }

\* the texts a session deserializes: text that does not parse, text that
\* parses to null, and documents with each field there or not, the version
\* current or not, references and messages arrays or not
Texts ==
  { [kind |-> "garbage"], [kind |-> "null"] } \cup
  { [kind |-> "json"] @@ v @@ r @@ m :
      v \in { EmptyObject, [version |-> CURRENT_VERSION], [version |-> CURRENT_VERSION + 1] },
      r \in { EmptyObject, [references |-> NotArray] }
             \cup { [references |-> Array(refs)] : refs \in RefSeqs },
      m \in { EmptyObject, [messages |-> NotArray], [messages |-> Array(<<>>)],
              [messages |-> Array(<<Message("WARNING", "note", None)>>)] } }

\* the session holds a store: the constructor or deserialize it last called
\* did not throw
HasStore ==
  /\ call.name # "none"
  /\ raised = None \/ call.name \notin {"new", "deserialize", "reload"}

\* a call that ends with the store (and the error thrown) of outcome
Session(made, outcome) ==
  /\ call' = made
  /\ store' = [outcome EXCEPT !.thrown = None]
  /\ raised' = outcome.thrown
  /\ UNCHANGED database

\* no call has been made yet: a session begins by constructing its store or
\* by loading it from a text
Begun == call.name # "none"

\* new FridgeState(CURRENT_VERSION, refs)
New(refs) ==
  /\ ~Begun
  /\ Session([name |-> "new", refs |-> refs], NewFridgeState(CURRENT_VERSION, refs, <<>>))

\* store.addRef(ref)
AddRef(ref) ==
  /\ HasStore
  /\ Len(store.references) < MaxRefs
  /\ Session([name |-> "addRef", ref |-> ref, from |-> store], addRef(store, ref))

\* store.pushMessage(level, message, refIds)
PushMessage(m) ==
  /\ HasStore
  /\ Len(store.messages) < MaxMessages
  /\ Session([name |-> "pushMessage"], pushMessage(store, m.level, m.message, m.refIds))

\* store.pushWarning(message)
PushWarning ==
  /\ HasStore
  /\ Len(store.messages) < MaxMessages
  /\ Session([name |-> "pushWarning"], pushWarning(store, "note"))

\* store.pushError(message)
PushError ==
  /\ HasStore
  /\ Len(store.messages) < MaxMessages
  /\ Session([name |-> "pushError"], pushError(store, "note"))

\* FridgeState.deserialize(text)
Deserialize(text) ==
  /\ ~Begun
  /\ Session([name |-> "deserialize", text |-> text], deserialize(text))

\* FridgeState.deserialize(store.serialize())
Reload ==
  /\ HasStore
  /\ Session([name |-> "reload", from |-> store], deserialize(serialize(store)))

NextStore ==
  \/ \E refs \in RefSeqs : New(refs)
  \/ \E ref \in RefUniverse : AddRef(ref)
  \/ \E m \in MessageInputs : PushMessage(m)
  \/ PushWarning
  \/ PushError
  \/ \E text \in Texts : Deserialize(text)
  \/ Reload

\* a session, the file store left as main.ts configures it
SpecStore == InitConc /\ [][NextStore]_vars

(***************************************************************************)
(* Properties of create / write / read with a single writer                *)
(***************************************************************************)

primary == getModelFilePath

latest == baseBackupFilePath

generation(i) == getModelBackupFilePath(i)

\* the content create writes
EmptyContent == serialize(NewFridgeState(CURRENT_VERSION, <<>>, <<>>))

\* the errors of create and of write that are thrown before any file is
\* touched
PreconditionErrors ==
  { "CANT CREATE DB! ALREADY EXISTS",
    "Can't perform backup because previous base backup doesn't exist!" }

\* the last call of client p was method m and ended with status
Finished(p, m, status) ==
  /\ pc[p] = "idle"
  /\ op[p] = m
  /\ result[p].status = status

\* the step client p is at, or at which its last call stopped
At(p) ==
  IF pc[p] = "idle" /\ result[p].status = "crashed" THEN result[p].error ELSE pc[p]

\* file f is in fs what it is in gs
SameFile(fs, gs, f) ==
  /\ fileExists(fs, f) <=> fileExists(gs, f)
  /\ fileExists(fs, f) => fs[f] = gs[f]

\* the steps of write that follow its writeFile to the backup path
AfterBackup == {"shift_base", "shift_exists", "shift_rename", "shift_copy", "primary"}

\* C1: after every write that returns, the primary file and the latest
\* backup both hold the serialization of the store that was passed
C1_WriteCommitsBoth ==
  \A p \in Procs :
    Finished(p, "write", "ok") =>
      /\ fileExists(disk, primary)
      /\ fileExists(disk, latest)
      /\ disk[primary] = serialize(arg[p][1])
      /\ disk[latest] = serialize(arg[p][1])

\* a write returned and replaced another content of the primary file
C1_Witness ==
  /\ Finished(1, "write", "ok")
  /\ fileExists(before[1], primary)
  /\ before[1][primary] # disk[primary]
  /\ before[1][latest] # disk[latest]

\* C2: as long as a write has not returned, the primary file is what it was
\* when the write began; from the writeFile to the backup path on, the latest
\* backup holds the new content, and once the rotation is over generation 0
\* (when there is one) holds it too. This is so where the write stopped as well
C2_PrimaryIsWrittenLast ==
  \A p \in Procs :
    (op[p] = "write" /\ ~Finished(p, "write", "ok")) =>
      /\ SameFile(disk, before[p], primary)
      /\ At(p) \in AfterBackup =>
           /\ fileExists(disk, latest)
           /\ disk[latest] = serialize(arg[p][1])
      /\ (At(p) = "primary" /\ localBackupCount > 0) =>
           /\ fileExists(disk, generation(0))
           /\ disk[generation(0)] = serialize(arg[p][1])

\* a write stopped between the rotation and its writeFile to the primary
\* file, which is left with the older content
C2_Witness ==
  /\ Finished(1, "write", "crashed")
  /\ At(1) = "primary"
  /\ localBackupCount > 0
  /\ fileExists(disk, primary)
  /\ disk[primary] # disk[latest]
  /\ disk[generation(0)] = disk[latest]

\* C3 as stated: after a write that returns, generation 0 holds what the
\* latest backup held when the write began
C3_Generation0HoldsPrevious ==
  \A p \in Procs :
    (Finished(p, "write", "ok") /\ localBackupCount > 0) =>
      /\ fileExists(disk, generation(0))
      /\ disk[generation(0)] = before[p][latest]

\* C3, amended: after a write that returns, generation 0 holds the content
\* that write wrote, and every generation i >= 1 holds what generation i-1
\* held when the write began; where there was no generation i-1, generation
\* i is gone (renamed to i+1), the oldest being left as it was
C3_Generation0HoldsWritten ==
  \A p \in Procs :
    (Finished(p, "write", "ok") /\ localBackupCount > 0) =>
      /\ fileExists(disk, generation(0))
      /\ disk[generation(0)] = serialize(arg[p][1])
      /\ \A i \in 1..(localBackupCount - 1) :
           IF fileExists(before[p], generation(i - 1))
           THEN /\ fileExists(disk, generation(i))
                /\ disk[generation(i)] = before[p][generation(i - 1)]
           ELSE IF i < localBackupCount - 1
           THEN ~fileExists(disk, generation(i))
           ELSE SameFile(disk, before[p], generation(i))

\* a write returned with depth 3 and every generation there before it:
\* generation 0 holds its content and not what the latest backup held,
\* which generation 1 holds
C3_Witness ==
  /\ Finished(1, "write", "ok")
  /\ localBackupCount = DefaultBackupCount
  /\ \A i \in 0..2 : fileExists(before[1], generation(i))
  /\ disk[generation(0)] = serialize(arg[1][1])
  /\ disk[generation(0)] # before[1][latest]
  /\ disk[generation(1)] = before[1][latest]
  /\ disk[generation(2)] # disk[generation(1)]

\* C4 as stated: create with depth 3 in an empty directory leaves the primary
\* file and the latest backup with the content of an empty store and no
\* generation file
C4_CreateLeavesNoGeneration ==
  \A p \in Procs :
    (/\ Finished(p, "create", "ok")
     /\ localBackupCount = DefaultBackupCount
     /\ before[p] = EmptyObject) =>
      /\ DOMAIN disk = {primary, latest}
      /\ disk[primary] = EmptyContent
      /\ disk[latest] = EmptyContent

\* create with depth 3 in an empty directory leaves the primary file, the
\* latest backup and generation 0 with the content of an empty store, and
\* neither generation 1 nor generation 2
CreateLeavesGeneration0 ==
  \A p \in Procs :
    (/\ Finished(p, "create", "ok")
     /\ localBackupCount = DefaultBackupCount
     /\ before[p] = EmptyObject) =>
      /\ DOMAIN disk = {primary, latest, generation(0)}
      /\ disk[primary] = EmptyContent
      /\ disk[latest] = EmptyContent
      /\ disk[generation(0)] = EmptyContent

\* once the primary file exists, a generation i >= 1 that was not there
\* appears only by the rename of a write
OlderGenerationsComeFromWrites ==
  fileExists(disk, primary) =>
    \A i \in 1..(localBackupCount - 1) :
      (~fileExists(disk, generation(i)) /\ fileExists(disk', generation(i))) =>
        \E p \in Procs : op[p] = "write" /\ pc[p] = "shift_rename"

\* C4, amended: create with depth 3 in an empty directory ends with the
\* primary file, the latest backup and generation 0 holding the content of
\* an empty store and without generations 1 and 2, which appear only as
\* later writes rename into them
C4_CreateFillsGeneration0 ==
  /\ []CreateLeavesGeneration0
  /\ [][OlderGenerationsComeFromWrites]_vars

\* create with depth 3 returned in a directory that was empty
C4_Witness ==
  /\ Finished(1, "create", "ok")
  /\ localBackupCount = DefaultBackupCount
  /\ before[1] = EmptyObject
  /\ fileExists(disk, primary)

\* C5: a write that begins without a latest backup gets no further than its
\* check, fails (unless it is stopped first) and leaves every file as it was
C5_WriteWithoutBackupFails ==
  \A p \in Procs :
    (op[p] = "write" /\ ~fileExists(before[p], latest)) =>
      /\ disk = before[p]
      /\ \/ pc[p] = "write_exists"
         \/ /\ Finished(p, "write", "error")
            /\ result[p].error =
                 "Can't perform backup because previous base backup doesn't exist!"
         \/ Finished(p, "write", "crashed") /\ At(p) = "write_exists"

\* a write failed in a directory where create had made the directories but
\* no file
C5_Witness ==
  /\ Finished(1, "write", "error")
  /\ ~fileExists(before[1], latest)
  /\ "backups" \in dirs
  /\ disk = EmptyObject

\* C6: a create that begins when the primary file exists gets no further
\* than its check, fails (unless it is stopped first) and leaves every file
\* as it was
C6_CreateOverExistingFails ==
  \A p \in Procs :
    (op[p] = "create" /\ fileExists(before[p], primary)) =>
      /\ disk = before[p]
      /\ \/ pc[p] = "create_exists"
         \/ /\ Finished(p, "create", "error")
            /\ result[p].error = "CANT CREATE DB! ALREADY EXISTS"
         \/ Finished(p, "create", "crashed") /\ At(p) = "create_exists"

\* a create failed over a store that a write had changed
C6_Witness ==
  /\ Finished(1, "create", "error")
  /\ fileExists(before[1], primary)
  /\ disk[primary] # EmptyContent
  /\ disk = before[1]

\* C7: a write made after a write that stopped, where the primary file
\* exists, never fails, can always take its next step, and when it returns
\* the primary file and the latest backup hold the serialization of its store
C7_RerunSucceeds ==
  \A p \in Procs :
    (op[p] = "write" /\ rerun[p] # "" /\ fileExists(before[p], primary)) =>
      /\ result[p].status # "error"
      /\ pc[p] # "idle" => ENABLED Step(p)
      /\ Finished(p, "write", "ok") =>
           /\ disk[primary] = serialize(arg[p][1])
           /\ disk[latest] = serialize(arg[p][1])

\* a write returned after a write that had stopped between its renames and
\* its copy, with generation 0 renamed away
C7_Witness ==
  /\ Finished(1, "write", "ok")
  /\ rerun[1] = "shift_copy"
  /\ fileExists(before[1], primary)
  /\ ~fileExists(before[1], generation(0))
  /\ fileExists(before[1], generation(1))
  /\ before[1][primary] # before[1][latest]

\* dbFileName has no extension separator
NoPeriod == \A k \in 1..Len(dbFileName) : dbFileName[k] # "."

\* the content a create or a write of client p writes
ContentOf(p) == IF op[p] = "create" THEN EmptyContent ELSE serialize(arg[p][1])

\* C9, amended: with a dbFileName without a period and a depth of 1 or more,
\* every create and every write that passes its first check fails with the
\* bad name, after it has written its content to the latest backup and
\* nothing else; with depth 0 no call fails with the bad name
C9_BadNameFailsAfterBackup ==
  NoPeriod =>
    \A p \in Procs :
      (pc[p] = "idle" /\ op[p] \in {"create", "write"}
         /\ result[p].status \in {"ok", "error"}) =>
        IF localBackupCount = 0
        THEN result[p].status = "error" => result[p].error \in PreconditionErrors
        ELSE /\ result[p].status = "error"
             /\ IF result[p].error \in PreconditionErrors
                THEN disk = before[p]
                ELSE /\ result[p].error = "BAD BACKUP FILE NAME"
                     /\ disk = writeFile(before[p], latest, ContentOf(p))

\* a write failed with the bad name and left its content in the latest backup
C9_Witness ==
  /\ NoPeriod
  /\ Finished(1, "write", "error")
  /\ result[1].error = "BAD BACKUP FILE NAME"
  /\ disk[latest] # before[1][latest]
  /\ ~fileExists(disk, primary)

\* C9 as stated: with a dbFileName without a period, every create and every
\* write that ends fails, and where it fails with the bad name it leaves
\* every file as it was
C9_BadNameFailsCleanly ==
  NoPeriod =>
    \A p \in Procs :
      (pc[p] = "idle" /\ op[p] \in {"create", "write"}
         /\ result[p].status \in {"ok", "error"}) =>
        /\ result[p].status = "error"
        /\ result[p].error = "BAD BACKUP FILE NAME" => disk = before[p]

\* C10: a read leaves every file as it is; it returns the deserialized
\* content of the primary file when that file exists and fails when it does
\* not, whatever the latest backup is
C10_ReadIsPrimaryOnly ==
  \A p \in Procs :
    op[p] = "read" =>
      /\ disk = before[p]
      /\ pc[p] = "idle" =>
           IF fileExists(disk, primary)
           THEN /\ result[p].status = "ok"
                /\ result[p].ret = Some(deserialize(disk[primary]))
           ELSE /\ result[p].status = "error"
                /\ result[p].error = "MODEL NOT FOUND"

\* a read failed although the latest backup was there
C10_Witness ==
  /\ Finished(1, "read", "error")
  /\ ~fileExists(disk, primary)
  /\ fileExists(disk, latest)

(***************************************************************************)
(* Two clients                                                             *)
(***************************************************************************)

\* the last call of each client was a write that returned
BothWrote == Finished(1, "write", "ok") /\ Finished(2, "write", "ok")

\* C8: with two clients, a call fails after its precondition check only when
\* the other client changed a file during it, and two finished writes leave
\* the primary file different from the latest backup only when one of them
\* had a file changed by the other during it; both do happen (C8_Witness,
\* C8_RenameLost)
C8_OnlyOverlapBreaks ==
  /\ \A p \in Procs :
       (pc[p] = "idle" /\ result[p].status = "error" /\ ~overlapped[p]) =>
         result[p].error \in PreconditionErrors
  /\ (BothWrote /\ ~overlapped[1] /\ ~overlapped[2]) =>
       /\ fileExists(disk, primary)
       /\ disk[primary] = disk[latest]

\* both writes returned and the primary file holds the content of one, the
\* latest backup the content of the other
C8_Witness ==
  /\ BothWrote
  /\ disk[primary] # disk[latest]
  /\ {disk[primary], disk[latest]} = {serialize(StoreOf(1)), serialize(StoreOf(2))}

\* a write failed in its rename: the generation file it had found was renamed
\* by the other client first
C8_RenameLost ==
  \E p \in Procs :
    /\ Finished(p, "write", "error")
    /\ result[p].error = "ENOENT rename"
    /\ overlapped[p]

(***************************************************************************)
(* Properties of the FridgeState of a session                              *)
(***************************************************************************)

\* the ids and the types asked for: those of the references in use and one
\* that no reference has
LookupIds == {r.id : r \in RefUniverse} \cup {"z"}

LookupTypes == {r.type : r \in RefUniverse} \cup {"z"}

\* the ids of refs are pairwise distinct
Distinct(refs) ==
  \A j, k \in 1..Len(refs) : j # k => refs[j].id # refs[k].id

\* the references of refs that have the type, in their order
OfType(refs, type) == SelectSeq(refs, LAMBDA r : r.type = type)

\* C11: a store constructed from references with pairwise distinct ids is
\* constructed without an error and without a diagnostic; getRef of the id
\* of each reference is that reference, getRefs of each type is the
\* references of that type in their order (none for a type no reference
\* has), and getRef of an id no reference has is nothing
C11_UniqueIdsAreIndexed ==
  (call.name = "new" /\ Distinct(call.refs)) =>
    /\ raised = None
    /\ store.messages = <<>>
    /\ \A k \in 1..Len(call.refs) : getRef(store, call.refs[k].id) = Some(call.refs[k])
    /\ \A type \in LookupTypes : getRefs(store, type) = Array(OfType(call.refs, type))
    /\ \A id \in LookupIds :
         (\A k \in 1..Len(call.refs) : call.refs[k].id # id) => getRef(store, id) = None

\* refs[k] is the first reference of refs with its id
FirstSeen(refs, k) == \A j \in 1..(k - 1) : refs[j].id # refs[k].id

\* the first reference of refs with the id of refs[k]
FirstOf(refs, k) ==
  refs[CHOOSE j \in 1..k : refs[j].id = refs[k].id /\ FirstSeen(refs, j)]

\* the first-seen references of refs, in their order
FirstSeenOnly(refs) ==
  LET keep == {k \in 1..Len(refs) : FirstSeen(refs, k)}
      nth(n) == CHOOSE k \in keep : Cardinality({j \in keep : j < k}) = n - 1
  IN  [n \in 1..Cardinality(keep) |-> refs[nth(n)]]

RECURSIVE DuplicateLog(_, _)
\* the diagnostics of the first k references of refs under the rule of
\* section 4.1: one for each reference whose id an earlier one has, ERROR
\* when the types differ and WARNING when they agree, citing the id
DuplicateLog(refs, k) ==
  IF k = 0 THEN <<>>
  ELSE DuplicateLog(refs, k - 1) \o
       ( IF FirstSeen(refs, k) THEN <<>>
         ELSE << [level |-> IF refs[k].type # FirstOf(refs, k).type
                            THEN "ERROR" ELSE "WARNING",
                  refIds |-> Some(<<refs[k].id>>)] >> )

\* the level and the cited ids of each diagnostic of a log
Cited(messages) ==
  [k \in 1..Len(messages) |->
     [level |-> messages[k].level, refIds |-> messages[k].refIds]]

\* C12: construction from any references ends with one diagnostic for each
\* reference whose id an earlier reference has, ERROR when its type is not
\* that of the first with the id and WARNING when it is, citing the id, and
\* with the first reference of each id, and no other, returned by getRef and
\* held in the bucket of its type
C12_DuplicatesAreDiagnosed ==
  call.name = "new" =>
    /\ raised = None
    /\ Cited(store.messages) = DuplicateLog(call.refs, Len(call.refs))
    /\ \A k \in 1..Len(call.refs) :
         getRef(store, call.refs[k].id) = Some(FirstOf(call.refs, k))
    /\ \A k \in 1..Len(call.refs) :
         getRefs(store, call.refs[k].type) =
           Array(OfType(FirstSeenOnly(call.refs), call.refs[k].type))

\* the bucket the type-index s holds for a type, empty when it holds none
BucketOf(s, type) ==
  IF type \in DOMAIN s.refsByType THEN s.refsByType[type] ELSE <<>>

\* C13: addRef of a reference whose id the id-index holds throws and leaves
\* the store as it was; addRef of a reference with any other id returns,
\* appends it to the raw sequence and to the end of the bucket of its type,
\* makes getRef of its id return it and adds no diagnostic
C13_AddRefIsStrict ==
  call.name = "addRef" =>
    IF OwnId(call.from.refsById, call.ref.id)
    THEN /\ raised # None
         /\ store = call.from
    ELSE /\ raised = None
         /\ store.references = Append(call.from.references, call.ref)
         /\ getRef(store, call.ref.id) = Some(call.ref)
         /\ getRefs(store, call.ref.type) =
              Array(Append(BucketOf(call.from, call.ref.type), call.ref))
         /\ store.messages = call.from.messages

\* the references a sequence holds
Range(seq) == {seq[k] : k \in 1..Len(seq)}

\* how often a sequence holds r
Count(seq, r) == Cardinality({k \in 1..Len(seq) : seq[k] = r})

\* C14: whenever a session holds a store, every reference of its id-index
\* is once in the bucket of its type and in no other bucket, every reference
\* of a bucket is in the id-index, and the id-index and the buckets are what
\* the raw sequence gives when the first reference of each id is kept
C14_IndicesFollowRawSequence ==
  HasStore =>
    /\ \A r \in Range(store.refsById) :
         /\ Count(BucketOf(store, r.type), r) = 1
         /\ \A type \in DOMAIN store.refsByType \ {r.type} :
              Count(store.refsByType[type], r) = 0
    /\ \A type \in DOMAIN store.refsByType :
         Range(store.refsByType[type]) \subseteq Range(store.refsById)
    /\ Range(store.refsById) = Range(FirstSeenOnly(store.references))
    /\ \A type \in LookupTypes :
         BucketOf(store, type) = OfType(FirstSeenOnly(store.references), type)

\* C15: serialize followed by deserialize, on a store whose raw sequence has
\* pairwise distinct ids, returns a store with the same id-index, the same
\* buckets in the same order and the same diagnostic log
C15_RoundTripKeepsStore ==
  (call.name = "reload" /\ Distinct(call.from.references)) =>
    /\ raised = None
    /\ Range(store.refsById) = Range(call.from.refsById)
    /\ store.refsByType = call.from.refsByType
    /\ store.messages = call.from.messages

\* the text does not parse
Unparseable(text) == text.kind = "garbage"

\* the text parses to a document whose version is not the current one, or
\* that has none
VersionDiffers(text) ==
  /\ text.kind = "json"
  /\ "version" \notin DOMAIN text \/ text.version # CURRENT_VERSION

\* the version a document is found to have, as the message spells it
FoundVersion(text) ==
  IF "version" \in DOMAIN text THEN IndexText(text.version) ELSE "undefined"

\* C16: deserialize of a text that does not parse, or of a document whose
\* version is not the current one, returns a store at the current version
\* with no reference in the raw sequence or in an index and with two
\* diagnostics, both ERROR: the failure (for a version, with the expected
\* and the found version), then the text itself
C16_UnusableTextGivesEmptyStore ==
  (call.name = "deserialize" /\ (Unparseable(call.text) \/ VersionDiffers(call.text))) =>
    /\ raised = None
    /\ store.version = CURRENT_VERSION
    /\ store.references = <<>>
    /\ store.refsById = <<>>
    /\ store.refsByType = EmptyObject
    /\ Len(store.messages) = 2
    /\ store.messages[1].level = "ERROR"
    /\ store.messages[2].level = "ERROR"
    /\ store.messages[1].message =
         IF Unparseable(call.text)
         THEN <<"Error parsing FridgeState string">>
         ELSE <<"Unuspported version number in serialized FridgeState",
                IndexText(CURRENT_VERSION), FoundVersion(call.text)>>
    /\ store.messages[2].message = <<"raw", call.text>>

\* a document of another version that holds references and a message was
\* deserialized
C16_Witness ==
  /\ call.name = "deserialize"
  /\ VersionDiffers(call.text)
  /\ "version" \in DOMAIN call.text
  /\ ArrayField(call.text, "references").items # <<>>
  /\ ArrayField(call.text, "messages").items # <<>>
  /\ Len(store.messages) = 2

\* text that does not parse was deserialized
C16_GarbageWitness ==
  /\ call.name = "deserialize"
  /\ Unparseable(call.text)
  /\ Len(store.messages) = 2

\* the text parses to a document of the current version whose messages are
\* missing or not an array
MessagesMissing(text) ==
  /\ text.kind = "json"
  /\ "version" \in DOMAIN text
  /\ text.version = CURRENT_VERSION
  /\ ~ArrayField(text, "messages").array

\* the two diagnostics deserialize pushes where the messages are missing
MissingMessagesWarnings(text) ==
  << Message("WARNING",
             <<"deserialize passed string-object that is missing the messages array">>,
             None),
     Message("WARNING", <<"raw", text>>, None) >>

Collides(refs, k) == ~FirstSeen(refs, k) \/ refs[k].id \in ObjectPrototypeKeys

\* construction throws: a reference it would index has a type that
\* Object.prototype has as a key
ConstructionThrows(refs) ==
  \E k \in 1..Len(refs) : ~Collides(refs, k) /\ refs[k].type \in ObjectPrototypeKeys

RECURSIVE CollisionLog(_, _)
\* the diagnostics of the first k references of refs: one for each whose id
\* is found in the id-index, WARNING when an earlier reference has the id
\* with the same type, ERROR otherwise, citing the id
CollisionLog(refs, k) ==
  IF k = 0 THEN <<>>
  ELSE CollisionLog(refs, k - 1) \o
       ( IF ~Collides(refs, k) THEN <<>>
         ELSE << [level |-> IF refs[k].id \notin ObjectPrototypeKeys
                               /\ refs[k].type = FirstOf(refs, k).type
                            THEN "WARNING" ELSE "ERROR",
                  refIds |-> Some(<<refs[k].id>>)] >> )

Anomalous(text) ==
  \/ text.kind # "json"
  \/ VersionDiffers(text)
  \/ ~ArrayField(text, "references").array
  \/ ~ArrayField(text, "messages").array
  \/ ~Distinct(ArrayField(text, "references").items)

\* C18: deserialize of any text returns a store and throws nothing, and the
\* store it returns for a text that is not the document of a store has a
\* diagnostic
C18_DeserializeNeverThrows ==
  call.name = "deserialize" =>
    /\ raised = None
    /\ Anomalous(call.text) => store.messages # <<>>

(***************************************************************************)
(* Properties of the rotation and of the chain it keeps                    *)
(***************************************************************************)

\* the files when the rotation of the current or last call of client p
\* began: create and write have written their content to the latest backup
RotationStart(p) ==
  IF op[p] = "shift" THEN before[p] ELSE writeFile(before[p], latest, ContentOf(p))

\* the rotation of the current or last call of client p is over and the
\* call has done nothing since
RotationDone(p) ==
  \/ Finished(p, "shift", "ok")
  \/ op[p] \in {"create", "write"} /\ At(p) = "primary"

\* what holds of any rotation that is over: generation 0 is a copy of the
\* latest backup, the latest backup and the primary file are as they were,
\* and no file was created but generations 0 .. N-1
RotationFrame(p) ==
  LET start == RotationStart(p)
  IN  /\ localBackupCount > 0 =>
           /\ fileExists(disk, generation(0))
           /\ disk[generation(0)] = start[latest]
      /\ SameFile(disk, start, latest)
      /\ SameFile(disk, start, primary)
      /\ DOMAIN disk \subseteq
           DOMAIN start \cup {generation(i) : i \in 0..(localBackupCount - 1)}

\* a call of shiftBackupFiles that begins without a latest backup gets no
\* further than its check, fails and leaves every file as it was
RotationNeedsLatest(p) ==
  (op[p] = "shift" /\ ~fileExists(before[p], latest)) =>
    /\ disk = before[p]
    /\ \/ pc[p] = "shift_base"
       \/ /\ Finished(p, "shift", "error")
          /\ result[p].error = "Can't shift backups because base backup doesn't exist!"

\* C19 as stated: after a rotation, every generation i >= 1 holds what
\* generation i-1 held before it and is as it was where there was no
\* generation i-1; generation 0 is a copy of the latest backup, and nothing
\* else is changed or created. Without a latest backup the rotation fails and
\* changes no file
C19_RotationLeavesGapsUnchanged ==
  \A p \in Procs :
    /\ RotationDone(p) =>
         /\ \A i \in 1..(localBackupCount - 1) :
              IF fileExists(RotationStart(p), generation(i - 1))
              THEN /\ fileExists(disk, generation(i))
                   /\ disk[generation(i)] = RotationStart(p)[generation(i - 1)]
              ELSE SameFile(disk, RotationStart(p), generation(i))
         /\ RotationFrame(p)
    /\ RotationNeedsLatest(p)

\* C19, amended: after a rotation, every generation i >= 1 holds what
\* generation i-1 held before it; where there was no generation i-1,
\* generation i is absent when i < N-1 (what it held has been renamed to
\* generation i+1) and is as it was when i = N-1. Generation 0 is a copy of
\* the latest backup, and nothing else is changed or created. Without a
\* latest backup the rotation fails and changes no file
C19_RotationMovesGaps ==
  \A p \in Procs :
    /\ RotationDone(p) =>
         /\ \A i \in 1..(localBackupCount - 1) :
              IF fileExists(RotationStart(p), generation(i - 1))
              THEN /\ fileExists(disk, generation(i))
                   /\ disk[generation(i)] = RotationStart(p)[generation(i - 1)]
              ELSE IF i < localBackupCount - 1
              THEN ~fileExists(disk, generation(i))
              ELSE SameFile(disk, RotationStart(p), generation(i))
         /\ RotationFrame(p)
    /\ RotationNeedsLatest(p)

\* a rotation with depth 3 began with generation 1 and without generation 0:
\* generation 2 holds what generation 1 held, and there is no generation 1
C19_Witness ==
  /\ RotationDone(1)
  /\ localBackupCount = DefaultBackupCount
  /\ ~fileExists(RotationStart(1), generation(0))
  /\ fileExists(RotationStart(1), generation(1))
  /\ ~fileExists(disk, generation(1))
  /\ disk[generation(2)] = RotationStart(1)[generation(1)]
  /\ disk[generation(0)] = disk[latest]

\* a call of shiftBackupFiles failed for want of a latest backup
C19_FailureWitness ==
  /\ Finished(1, "shift", "error")
  /\ ~fileExists(before[1], latest)
  /\ disk = before[1]

\* C20: with a depth of 1 or more and every call run to its end, after each
\* create and each write that returns generation 0, the latest backup and
\* the primary file hold the content just committed; generation i, for i
\* from 1 to N-1, holds the content committed i calls earlier and is absent
\* when there were not as many; the chain holds no other file, so that with
\* depth 1 nothing committed earlier is kept
C20_ChainKeepsLastCommits ==
  \A p \in Procs :
    (/\ pc[p] = "idle"
     /\ op[p] \in {"create", "write"}
     /\ result[p].status = "ok"
     /\ localBackupCount >= 1) =>
      /\ committed.log # <<>>
      /\ \A f \in {primary, latest, generation(0)} :
           fileExists(disk, f) /\ disk[f] = committed.log[1]
      /\ \A i \in 1..(localBackupCount - 1) :
           IF i + 1 <= Len(committed.log)
           THEN fileExists(disk, generation(i)) /\ disk[generation(i)] = committed.log[i + 1]
           ELSE ~fileExists(disk, generation(i))
      /\ DOMAIN disk \subseteq
           {primary, latest} \cup {generation(i) : i \in 0..(localBackupCount - 1)}
      /\ localBackupCount = 1 => DOMAIN disk = {primary, latest, generation(0)}

\* with depth 3, three contents were committed after one another, no two in
\* a row the same: generations 0, 1 and 2 hold them, the last first
C20_Witness ==
  /\ Finished(1, "write", "ok")
  /\ localBackupCount = DefaultBackupCount
  /\ Len(committed.log) >= 3
  /\ committed.log[1] # committed.log[2]
  /\ committed.log[2] # committed.log[3]
  /\ disk[generation(0)] = disk[primary]
  /\ disk[generation(1)] = committed.log[2]
  /\ disk[generation(2)] = committed.log[3]

\* with depth 1, a write returned after another: only its content is kept
C20_DepthOneWitness ==
  /\ Finished(1, "write", "ok")
  /\ localBackupCount = 1
  /\ Len(committed.log) >= 2
  /\ committed.log[1] # committed.log[2]
  /\ DOMAIN disk = {primary, latest, generation(0)}

=============================================================================
